---- MODULE Spec2Model ----
(***************************************************************************)
(* A model of examples/models/llama2/eval_llama_lib.py:                    *)
(*   - setup_cache_padded_seq_input_pos_max_seq_length_for_prefill, the    *)
(*     prefill buffer builder, over a heap of tensor storages;             *)
(*   - GPTFastEvalWrapper, the adapter handed to lm-evaluation-harness;    *)
(*   - eval, which expands the task list and calls the harness.            *)
(* Python's None is the empty set and a present value v is {v}.            *)
(***************************************************************************)
EXTENDS Integers, Sequences, FiniteSets, TLC

VARIABLES
    \* ---- prefill buffer builder ----
    pc,               \* "start" | "returned" (the call has just returned) | "generating"
    heap,             \* tensor storages: heap[a] is the contents of storage a
    prompt,           \* address of the caller's prompt tensor
    call,             \* the arguments of the latest call, prompt contents included
    seq,              \* returned: address of the padded buffer
    input_pos,        \* returned: the position index sequence
    max_seq_length,   \* returned: the effective max length
    caches_set,       \* whether model.setup_caches has been run
    \* ---- GPTFastEvalWrapper ----
    ctor_max_seq_length,  \* the max_seq_length argument of __init__
    self_max_seq_length,  \* self._max_seq_length
    bos_id,               \* what self._tokenizer.bos_id() answers
    op,                   \* the latest adapter operation
    outcome,              \* "returned" | "raised"
    ret,                  \* the value the latest operation returned
    tokenizer_out,        \* what self._tokenizer.encode(string) answered
    model_calls,          \* number of invocations of self._model
    tokenizer_calls,      \* number of invocations of self._tokenizer methods
    \* ---- eval ----
    eval_called,          \* eval has been called
    tasks_arg,            \* the tasks argument as it was when eval was called
    limit_arg,            \* the limit argument
    lists,                \* list objects: lists[1] is the caller's list when one was passed
    get_task_dict_arg     \* the list get_task_dict was called with

prefill_vars == <<pc, heap, prompt, call, seq, input_pos, max_seq_length, caches_set>>
adapter_vars == <<ctor_max_seq_length, self_max_seq_length, bos_id, op, outcome, ret,
                  tokenizer_out, model_calls, tokenizer_calls>>
eval_vars == <<eval_called, tasks_arg, limit_arg, lists, get_task_dict_arg>>
vars == <<prefill_vars, adapter_vars, eval_vars>>

None == {}
Some(v) == {v}
Val(x) == CHOOSE v \in x : TRUE
Min(a, b) == IF a <= b THEN a ELSE b

SeqsUpTo(S, n) == UNION {[1..k -> S] : k \in 0..n}

\* ---------------------------------------------------------------------
\* Bounds of the model
MaxLen == 3
MaxNewTokens == 2
MaxEnc == 2
MaxCalls == 4
MaxTasks == 3

\* Program constants
DefaultBlockSize == 2048
DefaultMaxSeqLength == 2048
Int32Max == 2147483647
Int32Min == (-2147483647) - 1

\* Input domains
PromptTokens == {0, 5}
Prompts == SeqsUpTo(PromptTokens, MaxLen)
Uninitialized == {0, 7}          \* what unwritten memory may hold
GenTokens == {9}                 \* tokens generation later writes into the buffer
MaxSeqOpts == {None, Some(2), Some(DefaultMaxSeqLength)}
BlockSizes == {2, DefaultBlockSize}

\* =====================================================================
\* Prefill buffer builder
\* =====================================================================

\* T_new = T + max_new_tokens
TargetLength(T, N) == T + N

\* if max_seq_length is None: max_seq_length = min(T_new, block_size)
EffectiveMaxClamped(m, T_new, b) ==
    IF m = None THEN Min(T_new, b) ELSE Min(Val(m), Min(T_new, b))
EffectiveMax(m, T_new, b) == IF m = None THEN Min(T_new, b) ELSE Val(m)

\* The size handed to torch.empty: T_new, whatever max_seq_length is.
BufferSizeClamped(T_new, msl) == Min(T_new, msl)
BufferSize(T_new, msl) == T_new

\* torch.empty(n): a tensor of n elements whose memory is not initialized;
\* g is what the memory holds.
torch_empty(n, g) == [i \in 1..n |-> g[i]]

\* empty[:T] = prompt
SliceAssignShort(buf, T, src) ==
    [i \in 1..Len(buf) |-> IF i <= T - 1 /\ i <= Len(src) THEN src[i] ELSE buf[i]]
SliceAssign(buf, T, src) ==
    [i \in 1..Len(buf) |-> IF i <= T /\ i <= Len(src) THEN src[i] ELSE buf[i]]

\* torch.arange(lo, hi): lo, lo+1, ..., hi-1
torch_arange(lo, hi) == [i \in 1..(IF hi > lo THEN hi - lo ELSE 0) |-> lo + i - 1]

\* input_pos = torch.arange(0, T)
InputPosWholeBuffer(T, T_new) == torch_arange(0, T_new)
InputPos(T, T_new) == torch_arange(0, T)

\* The address of a tensor that torch.empty allocates: a storage of its own.
NewAddrAliased(h) == Len(h)
NewAddr(h) == Len(h) + 1

\* heap h with storage a holding c
Store(h, a, c) ==
    [x \in 1..(IF a > Len(h) THEN a ELSE Len(h)) |-> IF x = a THEN c ELSE h[x]]

\* One call of the function, on a prompt tensor the caller has just made.
setup_cache_padded_seq_input_pos_max_seq_length_for_prefill ==
    /\ pc = "start"
    /\ \E p \in Prompts, N \in 0..MaxNewTokens, m \in MaxSeqOpts, b \in BlockSizes :
      \E g \in [1..(MaxLen + MaxNewTokens) -> Uninitialized] :
        LET h0 == <<p>>
            T == Len(h0[1])
            T_new == TargetLength(T, N)
            msl == EffectiveMax(m, T_new, b)
            a == NewAddr(h0)
            empty == torch_empty(BufferSize(T_new, msl), g)
        IN /\ heap' = Store(h0, a, SliceAssign(empty, T, h0[1]))
           /\ prompt' = 1
           /\ call' = [prompt |-> p, max_new_tokens |-> N,
                       max_seq_length |-> m, block_size |-> b]
           /\ seq' = a
           /\ input_pos' = InputPos(T, T_new)
           /\ max_seq_length' = msl
           /\ pc' = "returned"
           /\ UNCHANGED caches_set
           /\ UNCHANGED <<adapter_vars, eval_vars>>

\* The caller fills a slot of the returned buffer with a generated token.
WriteSeq ==
    /\ pc \in {"returned", "generating"}
    /\ \E i \in 1..Len(heap[seq]), v \in GenTokens :
         heap' = [heap EXCEPT ![seq][i] = v]
    /\ pc' = "generating"
    /\ UNCHANGED <<prompt, call, seq, input_pos, max_seq_length, caches_set>>
    /\ UNCHANGED <<adapter_vars, eval_vars>>

\* The caller is done with the buffer, the positions and the length: none of
\* them outlives the forward pass, and the next call starts from a new prompt.
Discard ==
    /\ pc \in {"returned", "generating"}
    /\ pc' = "start"
    /\ heap' = <<>>
    /\ prompt' = 0
    /\ call' = [prompt |-> <<>>, max_new_tokens |-> 0,
                max_seq_length |-> None, block_size |-> DefaultBlockSize]
    /\ seq' = 0
    /\ input_pos' = <<>>
    /\ max_seq_length' = 0
    /\ UNCHANGED caches_set
    /\ UNCHANGED <<adapter_vars, eval_vars>>

InitPrefillVars ==
    /\ pc = "start"
    /\ heap = <<>>
    /\ prompt = 0
    /\ call = [prompt |-> <<>>, max_new_tokens |-> 0,
               max_seq_length |-> None, block_size |-> DefaultBlockSize]
    /\ seq = 0
    /\ input_pos = <<>>
    /\ max_seq_length = 0
    /\ caches_set = FALSE

\* =====================================================================
\* GPTFastEvalWrapper
\* =====================================================================

TokenIds == {2, 31999}                   \* ids a tokenizer answers
BosIds == {-1, 1}                        \* bos_id() is -1 when the tokenizer has none
Encodings == SeqsUpTo(TokenIds, MaxEnc)
Strings == {"", "hi"}
CtorOpts == {None, Some(0), Some(128)}

\* self._max_seq_length = 2048 if max_seq_length is None else max_seq_length
InitMaxSeqLengthFixed(m) == DefaultMaxSeqLength
InitMaxSeqLength(m) == IF m = None THEN DefaultMaxSeqLength ELSE Val(m)

\* The properties of the adapter
max_length == self_max_seq_length
max_gen_toks == 50
batch_size == 1

\* [self._tokenizer.bos_id()] + self._tokenizer.encode(string)
TokensBosLast(bos, enc) == enc \o <<bos>>
Tokens(bos, enc) == <<bos>> \o enc

\* torch.tensor(tokens, dtype=torch.int): a one-dimensional int32 tensor of the
\* values; a value that does not fit int32 makes torch raise.
FitsInt32(tokens) ==
    \A i \in 1..Len(tokens) : tokens[i] >= Int32Min /\ tokens[i] <= Int32Max
torch_tensor(tokens) == [shape |-> <<Len(tokens)>>, data |-> tokens]

\* Tensor.tolist(): a list nested as deep as the tensor has dimensions
tolist(t) == [kind |-> "list", depth |-> Len(t.shape), items |-> t.data]

NoValue == [kind |-> "none", depth |-> 0, items |-> <<>>]

tok_encode ==
    /\ tokenizer_calls + 2 <= MaxCalls
    /\ \E string \in Strings, enc \in Encodings :
         LET tokens == Tokens(bos_id, enc)
         IN /\ tokenizer_out' = enc
            /\ IF FitsInt32(tokens)
                 THEN outcome' = "returned" /\ ret' = tolist(torch_tensor(tokens))
                 ELSE outcome' = "raised" /\ ret' = NoValue
    /\ op' = "tok_encode"
    /\ tokenizer_calls' = tokenizer_calls + 2
    /\ UNCHANGED <<ctor_max_seq_length, self_max_seq_length, bos_id, model_calls>>
    /\ UNCHANGED <<prefill_vars, eval_vars>>

\* decoded = self._tokenizer.decode(tokens): the text of the tokens
tok_decode ==
    /\ tokenizer_calls + 1 <= MaxCalls
    /\ \E tokens \in Encodings :
         ret' = [kind |-> "str", depth |-> 0, items |-> tokens]
    /\ op' = "tok_decode"
    /\ outcome' = "returned"
    /\ tokenizer_calls' = tokenizer_calls + 1
    /\ UNCHANGED <<ctor_max_seq_length, self_max_seq_length, bos_id, tokenizer_out,
                   model_calls>>
    /\ UNCHANGED <<prefill_vars, eval_vars>>

\* return self._model(inps): the logits of inps
model_call ==
    /\ model_calls + 1 <= MaxCalls
    /\ \E inps \in Encodings :
         ret' = [kind |-> "logits", depth |-> 0, items |-> inps]
    /\ op' = "_model_call"
    /\ outcome' = "returned"
    /\ model_calls' = model_calls + 1
    /\ UNCHANGED <<ctor_max_seq_length, self_max_seq_length, bos_id, tokenizer_out,
                   tokenizer_calls>>
    /\ UNCHANGED <<prefill_vars, eval_vars>>

\* raise Exception("unimplemented")
model_generate_forwarding ==
    /\ model_calls + 1 <= MaxCalls
    /\ \E context \in Encodings :
         ret' = [kind |-> "logits", depth |-> 0, items |-> context]
    /\ op' = "_model_generate"
    /\ outcome' = "returned"
    /\ model_calls' = model_calls + 1
    /\ UNCHANGED <<ctor_max_seq_length, self_max_seq_length, bos_id, tokenizer_out,
                   tokenizer_calls>>
    /\ UNCHANGED <<prefill_vars, eval_vars>>
model_generate ==
    /\ op' = "_model_generate"
    /\ outcome' = "raised"
    /\ ret' = NoValue
    /\ UNCHANGED <<ctor_max_seq_length, self_max_seq_length, bos_id, tokenizer_out,
                   model_calls, tokenizer_calls>>
    /\ UNCHANGED <<prefill_vars, eval_vars>>

\* GPTFastEvalWrapper(model, tokenizer, max_seq_length=m), tokenizer with bos id b
InitAdapterVars(m, b) ==
    /\ ctor_max_seq_length = m
    /\ self_max_seq_length = InitMaxSeqLength(m)
    /\ bos_id = b
    /\ op = "__init__"
    /\ outcome = "returned"
    /\ ret = NoValue
    /\ tokenizer_out = <<>>
    /\ model_calls = 0
    /\ tokenizer_calls = 0

\* =====================================================================
\* eval
\* =====================================================================

TaskNames == {"wikitext", "hendrycks_test", "arc_easy"}
TaskLists == SeqsUpTo(TaskNames, MaxTasks)
Limits == {None, Some(1), Some(5)}

\* list(lm_eval.tasks.hendrycks_test.create_all_tasks().keys()), in its order
HendrycksSubtasks == <<"hendrycksTest-abstract_algebra", "hendrycksTest-anatomy">>

Contains(l, x) == \E i \in 1..Len(l) : l[i] = x
FirstIndex(l, x) == CHOOSE i \in 1..Len(l) : l[i] = x /\ \A j \in 1..(i - 1) : l[j] # x

\* list.remove(x): the list without the first occurrence of x
ListRemove(l, x) ==
    LET k == FirstIndex(l, x)
    IN [i \in 1..(Len(l) - 1) |-> IF i < k THEN l[i] ELSE l[i + 1]]

\* if "hendrycks_test" in tasks: tasks.remove(...); tasks += [...]
ExpandHendrycks(l) ==
    IF Contains(l, "hendrycks_test")
      THEN ListRemove(l, "hendrycks_test") \o HendrycksSubtasks
      ELSE l

\* The list objects when eval starts: the caller's list, if one was passed.
CallerLists(t) == IF t = None THEN <<>> ELSE <<Val(t)>>

\* The object the name tasks refers to after "if tasks is None: tasks = [...]":
\* a new list ["wikitext"] when None was passed, else the caller's own list.
TasksRefCopied(t, ls) == Len(ls) + 1
TasksRef(t, ls) == IF t = None THEN Len(ls) + 1 ELSE 1

\* The list objects once the name tasks is bound
BindTasks(t, ls) ==
    IF t = None THEN Append(ls, <<"wikitext">>)
    ELSE IF TasksRef(t, ls) = 1 THEN ls ELSE Append(ls, Val(t))

eval ==
    /\ ~eval_called
    /\ \E t \in {None} \cup {Some(l) : l \in TaskLists}, limit \in Limits :
         LET ls0 == CallerLists(t)
             ref == TasksRef(t, ls0)
             ls1 == BindTasks(t, ls0)
             ls2 == [ls1 EXCEPT ![ref] = ExpandHendrycks(ls1[ref])]
         IN /\ lists' = ls2
            /\ get_task_dict_arg' = ls2[ref]
            /\ tasks_arg' = t
            /\ limit_arg' = limit
    /\ eval_called' = TRUE
    /\ UNCHANGED <<prefill_vars, adapter_vars>>

\* The process ends and another run of eval_llama starts.
Restart ==
    /\ eval_called
    /\ eval_called' = FALSE
    /\ tasks_arg' = None
    /\ limit_arg' = None
    /\ lists' = <<>>
    /\ get_task_dict_arg' = <<>>
    /\ UNCHANGED <<prefill_vars, adapter_vars>>

InitEvalVars ==
    /\ eval_called = FALSE
    /\ tasks_arg = None
    /\ limit_arg = None
    /\ lists = <<>>
    /\ get_task_dict_arg = <<>>

\* =====================================================================
\* Specifications
\* =====================================================================

Init ==
    /\ InitPrefillVars
    /\ InitAdapterVars(None, 1)
    /\ InitEvalVars

InitAdapter ==
    /\ InitPrefillVars
    /\ \E m \in CtorOpts, b \in BosIds : InitAdapterVars(m, b)
    /\ InitEvalVars

NextPrefill ==
    \/ setup_cache_padded_seq_input_pos_max_seq_length_for_prefill
    \/ WriteSeq
    \/ Discard

NextAdapter ==
    \/ tok_encode
    \/ tok_decode
    \/ model_call
    \/ model_generate

NextEval ==
    \/ eval
    \/ Restart

SpecPrefill == Init /\ [][NextPrefill]_vars
SpecAdapter == InitAdapter /\ [][NextAdapter]_vars
SpecEval == Init /\ [][NextEval]_vars

\* =====================================================================
\* Properties
\* =====================================================================

T_of_call == Len(call.prompt)
N_of_call == call.max_new_tokens

C2_TailIsZero ==
    (pc = "returned" /\ T_of_call >= 1) =>
        \A i \in (T_of_call + 1)..Len(heap[seq]) : heap[seq][i] = 0

\* C3: for a prompt of length T >= 1 the returned positions are 0, 1, ..., T-1,
\* whatever N, the explicit max length and the block size are.
C3_PositionsCountThePrompt ==
    (pc = "returned" /\ T_of_call >= 1) =>
        /\ Len(input_pos) = T_of_call
        /\ input_pos[1] = 0
        /\ input_pos[T_of_call] = T_of_call - 1
        /\ \A i \in 1..(T_of_call - 1) : input_pos[i + 1] = input_pos[i] + 1

C3_Witness ==
    /\ pc = "returned"
    /\ T_of_call = 3
    /\ N_of_call = 2
    /\ call.max_seq_length = Some(2)
    /\ call.block_size = 2
    /\ input_pos = <<0, 1, 2>>

\* C4: the returned max length is the smaller of T+N and block_size when no
\* explicit max length was given, and the explicit max length itself otherwise.
C4_EffectiveMaxLength ==
    (pc = "returned") =>
        IF call.max_seq_length = None
          THEN /\ max_seq_length <= T_of_call + N_of_call
               /\ max_seq_length <= call.block_size
               /\ max_seq_length \in {T_of_call + N_of_call, call.block_size}
          ELSE max_seq_length \in call.max_seq_length

C4_Witness ==
    /\ pc = "returned"
    /\ call.max_seq_length = Some(2048)
    /\ call.block_size = 2
    /\ T_of_call + N_of_call = 5
    /\ max_seq_length = 2048

C5_GenerateAlwaysRaises ==
    [][(op' = "_model_generate") =>
          /\ outcome' = "raised"
          /\ ret' = NoValue
          /\ model_calls' = model_calls
          /\ tokenizer_calls' = tokenizer_calls]_vars

C5_Witness ==
    /\ op = "_model_generate"
    /\ outcome = "raised"
    /\ model_calls = 2
    /\ tokenizer_calls = 3
    /\ ctor_max_seq_length = Some(0)

\* C6: tok_encode returns a flat list: the bos id first, then the tokenizer's
\* encoding of the string in order; for an empty encoding, the bos id alone.
C6_EncodePrependsBos ==
    (op = "tok_encode") =>
        /\ outcome = "returned"
        /\ ret.kind = "list"
        /\ ret.depth = 1
        /\ Len(ret.items) = 1 + Len(tokenizer_out)
        /\ ret.items[1] = bos_id
        /\ \A i \in 1..Len(tokenizer_out) : ret.items[i + 1] = tokenizer_out[i]

C6_Witness ==
    /\ op = "tok_encode"
    /\ bos_id = -1
    /\ tokenizer_out = <<31999, 2>>
    /\ ret.items = <<-1, 31999, 2>>

\* C7: after any adapter operations max_length is the max_seq_length given at
\* construction, or 2048 when none was given; max_gen_toks is 50; batch_size is 1.
C7_AdapterProperties ==
    /\ IF ctor_max_seq_length = None
         THEN max_length = 2048
         ELSE max_length \in ctor_max_seq_length
    /\ max_gen_toks = 50
    /\ batch_size = 1

C7_Witness ==
    /\ op = "tok_decode"
    /\ model_calls = 2
    /\ tokenizer_calls = 3
    /\ ctor_max_seq_length = Some(128)
    /\ max_length = 128

\* C10: eval removes the first "hendrycks_test" of the task list and appends the
\* hendrycks sub-tasks, in place on the caller's list, and hands that list to
\* get_task_dict; a list without the name is passed on unchanged; None means
\* ["wikitext"].
C10_TasksExpandedInPlace ==
    eval_called =>
        LET given == IF tasks_arg = None THEN <<"wikitext">> ELSE Val(tasks_arg)
            out == get_task_dict_arg
            n == Len(given)
            subs == Len(HendrycksSubtasks)
        IN /\ IF \E i \in 1..n : given[i] = "hendrycks_test"
                THEN \E k \in 1..n :
                       /\ given[k] = "hendrycks_test"
                       /\ \A j \in 1..(k - 1) : given[j] # "hendrycks_test"
                       /\ Len(out) = n - 1 + subs
                       /\ \A i \in 1..(k - 1) : out[i] = given[i]
                       /\ \A i \in k..(n - 1) : out[i] = given[i + 1]
                       /\ \A i \in 1..subs : out[n - 1 + i] = HendrycksSubtasks[i]
                ELSE out = given
           /\ tasks_arg # None => lists[1] = out

C10_Witness ==
    /\ eval_called
    /\ tasks_arg = Some(<<"hendrycks_test", "wikitext", "hendrycks_test">>)
    /\ lists[1] = <<"wikitext", "hendrycks_test",
                    "hendrycksTest-abstract_algebra", "hendrycksTest-anatomy">>
====
